---------------------------- MODULE Spec2Model ----------------------------
(***************************************************************************)
(* Model of vmod-rers (src/src/lib.rs): the regex store `init` with its    *)
(* mutex-protected LRU cache, the match / replace / capture operations,    *)
(* the registration of body rewrite steps in the task's private slot and   *)
(* the Vxp delivery (push) and fetch (pull) processors.                    *)
(*                                                                         *)
(* Byte strings are sequences of one-character strings.  The regex crate   *)
(* is an external engine: the model fixes a small universe of pattern      *)
(* texts and gives each one its meaning (a literal, its groups, or a       *)
(* parse error).  usize is 64 bits wide, so every non-negative i64 fits.   *)
(***************************************************************************)
EXTENDS Integers, Sequences, FiniteSets, TLC

VARIABLES
    conf,       \* history: the cache_size argument given to init::new
    cap,        \* capacity of the LruCache built by init::new
    lru,        \* mutexed_cache contents, most recently used first
    mutex,      \* holder of mutexed_cache's lock, 0 when free
    pc,         \* per thread: position inside get_regex
    arg,        \* per thread: the `res` argument of the running get_regex
    comp,       \* per thread: the local `comp` of get_regex
    ret,        \* per thread: value returned by the last finished get_regex
    hist,       \* history: pattern texts in the order their calls took the lock
    ncompile,   \* history: per pattern text, number of Regex::new calls
    nevict,     \* history: per pattern text, number of evictions from the cache
    vp,         \* the task's capture slot (Option<Box<Captures>>)
    reqBody,    \* the host's cached request body, if any
    last,       \* the last control-phase call with its arguments and result
    task,       \* "client" (ctx.http_req is set) or "backend" (it is not)
    bereqBodyNull, \* backend task: bo.bereq_body is null
    vclFailed,  \* ctx.fail was called: the VCL transaction is aborted
    cl,         \* which messages still carry a Content-Length header, and clen
    nreg,       \* history: number of steps the task has registered
    made,       \* history: kinds of processor the task has created
    priv,       \* the task's PRIV_ANCHOR slot (Option<Box<Vxp>>)
    proc,       \* the task's live body processor (a Vxp), if any
    inAll,      \* history: the whole body given to the live processor
    nchunks,    \* history: number of inbound chunks the processor was handed
    inRem,      \* the part of that body not yet pushed / not yet pulled
    upClosed,   \* the fetch upstream: "open", or the result it closed with
    down,       \* calls the delivery side made to its downstream (ctx.push)
    pulled      \* results FetchProcessor::pull returned to its caller

cacheVars  == <<conf, cap, lru, mutex, pc, arg, comp, ret, hist, ncompile, nevict>>
opVars     == <<vp, reqBody, last>>
streamVars == <<task, bereqBodyNull, vclFailed, cl, nreg, made, priv, proc, inAll, nchunks, inRem,
                upClosed, down, pulled>>
vars       == <<cacheVars, opVars, streamVars>>
\* the store's variables a single-threaded caller of get_regex leaves alone
storeRest  == <<conf, cap, mutex, pc, arg, comp, ret, hist, ncompile, nevict>>

-----------------------------------------------------------------------------
(* Bounds of the model *)

NThreads == 2
MaxCalls == 4
MaxLen   == 2
MaxBody  == 3
MaxSteps == 2
MaxBuf   == 2
MaxLimitSteps == 1

Threads == 1..NThreads

-----------------------------------------------------------------------------
(* Byte strings *)

Bytes == {"a", "b"}

RECURSIVE SeqsUpTo(_)
SeqsUpTo(n) ==
    IF n = 0 THEN {<<>>}
    ELSE LET S == SeqsUpTo(n - 1)
         IN  S \cup {Append(s, c) : s \in {x \in S : Len(x) = n - 1}, c \in Bytes}

Min(x, y) == IF x <= y THEN x ELSE y

-----------------------------------------------------------------------------
(* The regex engine, as the calls of lib.rs use it *)

PatternTexts == {"a", "b", "(?P<x>a)(b)", "("}
Malformed    == {"("}

\* the literal a well-formed pattern text matches
Lit(re) ==
    CASE re = "a" -> <<"a">>
      [] re = "b" -> <<"b">>
      [] re = "(?P<x>a)(b)" -> <<"a", "b">>

\* number of capture groups besides group 0
NGroups(re) == IF re = "(?P<x>a)(b)" THEN 2 ELSE 0

\* index of a named group, 0 when the pattern has no group of that name
NameIndex(re, name) == IF re = "(?P<x>a)(b)" /\ name = "x" THEN 1 ELSE 0

\* Regex::new(res).map_err(|e| e.to_string())
RegexNew(res) ==
    IF res \in Malformed
    THEN [ok |-> FALSE, re |-> "", err |-> "regex parse error"]
    ELSE [ok |-> TRUE, re |-> res, err |-> ""]

MatchAt(re, h, i) ==
    /\ i >= 1
    /\ i + Len(Lit(re)) - 1 <= Len(h)
    /\ SubSeq(h, i, i + Len(Lit(re)) - 1) = Lit(re)

\* start of the leftmost match at or after position i, 0 when there is none
FindFrom(re, h, i) ==
    LET S == {j \in i..Len(h) : MatchAt(re, h, j)}
    IN  IF S = {} THEN 0 ELSE CHOOSE j \in S : \A k \in S : j <= k

\* re.is_match(s)
ReIsMatch(re, h) == FindFrom(re, h, 1) # 0

\* the loop of Regex::replacen over find_iter().enumerate(): the i-th match
\* (from 0) is replaced and the loop breaks when limit > 0 and i >= limit - 1
RECURSIVE ReplLoop(_, _, _, _, _, _)
ReplLoop(re, h, pos, i, limit, sub) ==
    LET m == FindFrom(re, h, pos)
        e == m + Len(Lit(re))
    IN  IF m = 0 THEN SubSeq(h, pos, Len(h))
        ELSE SubSeq(h, pos, m - 1) \o sub \o
             (IF limit > 0 /\ i >= limit - 1
              THEN SubSeq(h, e, Len(h))
              ELSE ReplLoop(re, h, e, i + 1, limit, sub))

\* re.replacen(h, limit, sub): Cow::Borrowed when nothing matches
Replacen(re, h, limit, sub) ==
    IF FindFrom(re, h, 1) = 0
    THEN [owned |-> FALSE, bytes |-> h]
    ELSE [owned |-> TRUE, bytes |-> ReplLoop(re, h, 1, 0, limit, sub)]

-----------------------------------------------------------------------------
(* clamp_i64_to_usize and the LruCache *)

ClampAbs(value) == IF value < 0 THEN 0 - value ELSE value

\* usize::try_from(value).unwrap_or(if value < 0 { 0 } else { usize::MAX })
ClampI64ToUsize(value) == IF value < 0 THEN 0 ELSE value

\* NonZeroUsize::new(clamp_i64_to_usize(cache_size)).unwrap_or(NonZeroUsize::MIN)
NewCap(cache_size) ==
    IF ClampI64ToUsize(cache_size) = 0 THEN 1 ELSE ClampI64ToUsize(cache_size)

Keys(l) == [i \in 1..Len(l) |-> l[i].key]
KeySet(l) == {l[i].key : i \in 1..Len(l)}

LruIndex(l, k) ==
    IF k \in KeySet(l) THEN CHOOSE i \in 1..Len(l) : l[i].key = k ELSE 0

Without(l, i) == SubSeq(l, 1, i - 1) \o SubSeq(l, i + 1, Len(l))

LruGetNoPromote(l, k) == l

\* LruCache::get: a hit moves the entry to the most-recently-used end
LruGet(l, k) ==
    LET i == LruIndex(l, k)
    IN  IF i = 0 THEN l ELSE <<l[i]>> \o Without(l, i)

\* the entry LruCache::put pushes out, "" when none
LruVictim(l, c, k) ==
    IF k \notin KeySet(l) /\ Len(l) >= c THEN l[Len(l)].key ELSE ""

\* LruCache::put: replace the value of a present key, else evict the least
\* recently used entry when full; the entry becomes the most recently used
LruPut(l, c, k, v) ==
    LET i == LruIndex(l, k)
        e == [key |-> k, val |-> v]
    IN  IF i # 0 THEN <<e>> \o Without(l, i)
        ELSE IF Len(l) >= c THEN <<e>> \o SubSeq(l, 1, c - 1)
        ELSE <<e>> \o l

LruValue(l, k) == l[LruIndex(l, k)].val

-----------------------------------------------------------------------------
(* init::new and init::get_regex, one step per statement, for concurrent   *)
(* callers of one store                                                    *)

CacheSizes == {-1, 0, 1, 2}
CachePatterns == {"a", "b", "("}

NoRet == [ok |-> FALSE, re |-> "", err |-> ""]

\* values of the variables a specification does not use
CacheIdle ==
    /\ mutex = 0
    /\ pc = [t \in Threads |-> "idle"]
    /\ arg = [t \in Threads |-> ""]
    /\ comp = [t \in Threads |-> NoRet]
    /\ ret = [t \in Threads |-> NoRet]
    /\ hist = <<>>
    /\ ncompile = [p \in PatternTexts |-> 0]
    /\ nevict = [p \in PatternTexts |-> 0]

NoCaptures == [active |-> FALSE, text |-> <<>>, re |-> "", at |-> 0, owned |-> FALSE]
NoCall == [op |-> "none", text |-> <<>>, res |-> "", sub |-> <<>>, n |-> 0,
           name |-> "", hit |-> FALSE, err |-> FALSE, bool |-> FALSE,
           some |-> FALSE, bytes |-> <<>>]

OpsIdle ==
    /\ vp = NoCaptures
    /\ reqBody = [cached |-> FALSE, data |-> <<>>]
    /\ last = NoCall

\* sent = -1 stands for None
NoVxp == [some |-> FALSE, steps |-> <<>>, body |-> <<>>, sent |-> -1]
NoProc == [kind |-> "none", pass |-> FALSE, done |-> FALSE,
           steps |-> <<>>, body |-> <<>>, sent |-> -1]
AllFramed == [req |-> TRUE, resp |-> TRUE, bereq |-> TRUE, beresp |-> TRUE,
              clen |-> "known"]

StreamIdle ==
    /\ task = "client"
    /\ bereqBodyNull = FALSE
    /\ vclFailed = FALSE
    /\ cl = AllFramed
    /\ nreg = 0
    /\ made = {}
    /\ priv = NoVxp
    /\ proc = NoProc
    /\ inAll = <<>>
    /\ nchunks = 0
    /\ inRem = <<>>
    /\ upClosed = "open"
    /\ down = <<>>
    /\ pulled = <<>>

\* init::new(cache_size)
New(cache_size) ==
    /\ conf = cache_size
    /\ cap = NewCap(cache_size)
    /\ lru = <<>>

InitCache ==
    /\ \E cs \in CacheSizes : New(cs)
    /\ CacheIdle
    /\ OpsIdle
    /\ StreamIdle

\* a transaction thread enters get_regex(res)
Call(t, res) ==
    /\ pc[t] = "idle"
    /\ Len(hist) + Cardinality({u \in Threads : pc[u] = "lock"}) < MaxCalls
    /\ pc' = [pc EXCEPT ![t] = "lock"]
    /\ arg' = [arg EXCEPT ![t] = res]
    /\ UNCHANGED <<conf, cap, lru, mutex, comp, ret, hist, ncompile, nevict>>
    /\ UNCHANGED <<opVars, streamVars>>

LockNotExclusive(t) == TRUE

\* Mutex::lock returns only while no other thread holds the guard
CanLock(t) == mutex = 0

\* let mut lru = self.mutexed_cache.lock().unwrap();
Lock(t) ==
    /\ pc[t] = "lock"
    /\ CanLock(t)
    /\ mutex' = t
    /\ hist' = Append(hist, arg[t])
    /\ pc' = [pc EXCEPT ![t] = "lookup"]
    /\ UNCHANGED <<conf, cap, lru, arg, comp, ret, ncompile, nevict>>
    /\ UNCHANGED <<opVars, streamVars>>

MissUnlessCompiled(l, k) ==
    \/ k \notin KeySet(l)
    \/ ~LruValue(l, k).ok

\* lru.get(res).is_none()
IsMiss(l, k) == k \notin KeySet(l)

\* if lru.get(res).is_none() {
Lookup(t) ==
    /\ pc[t] = "lookup"
    /\ lru' = LruGet(lru, arg[t])
    /\ pc' = [pc EXCEPT ![t] = IF IsMiss(lru, arg[t]) THEN "compile" ELSE "final"]
    /\ UNCHANGED <<conf, cap, mutex, arg, comp, ret, hist, ncompile, nevict>>
    /\ UNCHANGED <<opVars, streamVars>>

\* let comp = Regex::new(res).map_err(|e| e.to_string());
Compile(t) ==
    /\ pc[t] = "compile"
    /\ comp' = [comp EXCEPT ![t] = RegexNew(arg[t])]
    /\ ncompile' = [ncompile EXCEPT ![arg[t]] = @ + 1]
    /\ pc' = [pc EXCEPT ![t] = "put"]
    /\ UNCHANGED <<conf, cap, lru, mutex, arg, ret, hist, nevict>>
    /\ UNCHANGED <<opVars, streamVars>>

\* lru.put(res.into(), comp);
Put(t) ==
    /\ pc[t] = "put"
    /\ lru' = LruPut(lru, cap, arg[t], comp[t])
    /\ nevict' = IF LruVictim(lru, cap, arg[t]) = "" THEN nevict
                 ELSE [nevict EXCEPT ![LruVictim(lru, cap, arg[t])] = @ + 1]
    /\ pc' = [pc EXCEPT ![t] = "final"]
    /\ UNCHANGED <<conf, cap, mutex, arg, comp, ret, hist, ncompile>>
    /\ UNCHANGED <<opVars, streamVars>>

\* lru.get(res).unwrap().clone(), then the guard is dropped; the unwrap
\* panics with the guard held (the mutex stays poisoned) when the key is gone
Final(t) ==
    /\ pc[t] = "final"
    /\ IF arg[t] \in KeySet(lru)
       THEN /\ lru' = LruGet(lru, arg[t])
            /\ ret' = [ret EXCEPT ![t] = LruValue(lru, arg[t])]
            /\ mutex' = 0
            /\ pc' = [pc EXCEPT ![t] = "idle"]
       ELSE /\ pc' = [pc EXCEPT ![t] = "panicked"]
            /\ UNCHANGED <<lru, ret, mutex>>
    /\ UNCHANGED <<conf, cap, arg, comp, hist, ncompile, nevict>>
    /\ UNCHANGED <<opVars, streamVars>>

NextCache ==
    \/ \E t \in Threads, res \in CachePatterns : Call(t, res)
    \/ \E t \in Threads : Lock(t)
    \/ \E t \in Threads : Lookup(t)
    \/ \E t \in Threads : Compile(t)
    \/ \E t \in Threads : Put(t)
    \/ \E t \in Threads : Final(t)

SpecCache == InitCache /\ [][NextCache]_vars

-----------------------------------------------------------------------------
(* Claims about the pattern store *)

InCriticalSection(t) == pc[t] \in {"lookup", "compile", "put", "final", "panicked"}

\* the distinct pattern texts of a request history, most recent request first
RECURSIVE Recency(_)
Recency(h) ==
    IF h = <<>> THEN <<>>
    ELSE LET p == h[Len(h)]
         IN  <<p>> \o SelectSeq(Recency(SubSeq(h, 1, Len(h) - 1)), LAMBDA x : x # p)

ConfiguredN == IF conf >= 1 THEN conf ELSE 1

\* C1: with N the configured capacity (1 for a non-positive one), the cache
\* never holds more than N entries, and between calls its keys are exactly the
\* N most recently requested distinct pattern texts (all of them when fewer
\* were requested), hits and inserts both counting as requests.
Thm_C1_LruContents ==
    /\ Len(lru) <= ConfiguredN
    /\ mutex = 0 =>
         Keys(lru) = SubSeq(Recency(hist), 1, Min(ConfiguredN, Len(Recency(hist))))

Wit_C1_Eviction ==
    /\ conf = 2
    /\ mutex = 0
    /\ hist = <<"a", "b", "(", "a">>
    /\ Keys(lru) = <<"a", "(">>

\* C2: a compile failure is cached like a success: once a call on a malformed
\* pattern has returned the pattern holds one slot with the stored failure,
\* the call returned that failure, and the pattern has been compiled once per
\* stay in the cache (never again while it is cached).
Thm_C2_FailureCached ==
    \A p \in Malformed :
        /\ ncompile[p] = nevict[p] +
              (IF p \in KeySet(lru) \/ \E t \in Threads : pc[t] = "put" /\ arg[t] = p
               THEN 1 ELSE 0)
        /\ Cardinality({i \in 1..Len(lru) : lru[i].key = p}) <= 1
        /\ Len(lru) <= cap
        /\ (mutex = 0 /\ hist # <<>> /\ hist[Len(hist)] = p) =>
              /\ lru[1].key = p
              /\ ~lru[1].val.ok
        /\ \A t \in Threads :
              (pc[t] = "idle" /\ arg[t] = p) => ret[t] = RegexNew(p) /\ ~ret[t].ok

Wit_C2_FailureHit ==
    /\ hist = <<"(", "b", "(">>
    /\ mutex = 0
    /\ ncompile["("] = 1
    /\ conf = 2
    /\ Len(lru) = 2

\* C3: at most one call is inside the lookup-or-compile-and-insert sequence at
\* any time, it is the holder of the lock, and so every pattern is compiled
\* once per stay in the cache (of two concurrent requests for an uncached
\* pattern one compiles, the other hits), the capacity is respected, no key is
\* cached twice and the final unwrap never panics.
Thm_C3_Atomic ==
    /\ Cardinality({t \in Threads : InCriticalSection(t)}) <= 1
    /\ \A t \in Threads : InCriticalSection(t) <=> mutex = t
    /\ \A p \in PatternTexts :
          ncompile[p] = nevict[p] +
              (IF p \in KeySet(lru) \/ \E t \in Threads : pc[t] = "put" /\ arg[t] = p
               THEN 1 ELSE 0)
    /\ Len(lru) <= cap
    /\ \A i, j \in 1..Len(lru) : lru[i].key = lru[j].key => i = j
    /\ \A t \in Threads : pc[t] # "panicked"

Wit_C3_Concurrent ==
    /\ pc[1] = "put"
    /\ pc[2] = "lock"
    /\ arg[1] = "a"
    /\ arg[2] = "a"
    /\ ncompile["a"] = 1

-----------------------------------------------------------------------------
(* The control-phase calls of one task: is_match, replace, capture,        *)
(* capture_req_body, group, named_group.  The task is the only caller of   *)
(* the store here, so get_regex runs from lock to unlock in one step.      *)

Texts    == SeqsUpTo(MaxLen)
Subs     == {<<>>, <<"b">>}
Limits   == {-1, 0, 1, 2}
Indexes  == {-1, 0, 1, 2, 3}
Names    == {"x", "y"}
OpCacheSizes == {1, 2}
ReqBodies == {<<>>, <<"b", "a", "b">>}

\* init::get_regex: the cache afterwards, the cloned outcome, hit or miss
GetRegex(l, c, res) ==
    LET l1 == LruGet(l, res)
        l2 == IF IsMiss(l, res) THEN LruPut(l1, c, res, RegexNew(res)) ELSE l1
    IN  [lru |-> LruGet(l2, res), val |-> LruValue(l2, res), hit |-> ~IsMiss(l, res)]

InitMatch ==
    /\ \E cs \in OpCacheSizes : New(cs)
    /\ CacheIdle
    /\ OpsIdle
    /\ StreamIdle

\* the request body is cached (std.cache_req_body) before the calls, or not
InitCapture ==
    /\ \E cs \in OpCacheSizes : New(cs)
    /\ CacheIdle
    /\ vp = NoCaptures
    /\ \/ reqBody = [cached |-> FALSE, data |-> <<>>]
       \/ \E d \in ReqBodies : reqBody = [cached |-> TRUE, data |-> d]
    /\ last = NoCall
    /\ StreamIdle

\* init::is_match
IsMatch(s, res) ==
    LET g == GetRegex(lru, cap, res)
    IN  /\ lru' = g.lru
        /\ last' = [NoCall EXCEPT !.op = "is_match", !.text = s, !.res = res,
                       !.hit = g.hit,
                       !.bool = IF g.val.ok THEN ReIsMatch(g.val.re, s) ELSE FALSE]
        /\ UNCHANGED <<vp, reqBody, storeRest, streamVars>>

\* init::replace: `?` returns the compile error; the substitution of ASCII
\* bytes in ASCII text is valid UTF-8, so from_utf8 succeeds
Replace(s, res, sub, limit) ==
    LET g == GetRegex(lru, cap, res)
    IN  /\ lru' = g.lru
        /\ last' = [NoCall EXCEPT !.op = "replace", !.text = s, !.res = res,
                       !.sub = sub, !.n = limit, !.hit = g.hit,
                       !.err = ~g.val.ok,
                       !.bytes = IF g.val.ok
                                 THEN Replacen(g.val.re, s, ClampI64ToUsize(limit), sub).bytes
                                 ELSE <<>>]
        /\ UNCHANGED <<vp, reqBody, storeRest, streamVars>>

\* init::capture
Capture(s, res) ==
    LET g  == GetRegex(lru, cap, res)
        at == IF g.val.ok THEN FindFrom(g.val.re, s, 1) ELSE 0
    IN  /\ lru' = g.lru
        /\ vp' = IF at = 0 THEN vp
                 ELSE [active |-> TRUE, text |-> s, re |-> g.val.re, at |-> at,
                       owned |-> FALSE]
        /\ last' = [NoCall EXCEPT !.op = "capture", !.res = res,
                       !.hit = g.hit, !.bool = (at # 0)]
        /\ UNCHANGED <<reqBody, storeRest, streamVars>>

CaptureReqBodyBodyFirst(res) ==
    LET g  == GetRegex(lru, cap, res)
        at == IF g.val.ok THEN FindFrom(g.val.re, reqBody.data, 1) ELSE 0
    IN  /\ lru' = g.lru
        /\ vp' = IF at = 0 \/ ~reqBody.cached THEN vp
                 ELSE [active |-> TRUE, text |-> reqBody.data, re |-> g.val.re,
                       at |-> at, owned |-> TRUE]
        /\ last' = [NoCall EXCEPT !.op = "capture_req_body", !.res = res,
                       !.hit = g.hit,
                       !.err = ~reqBody.cached,
                       !.bool = (reqBody.cached /\ at # 0)]
        /\ UNCHANGED <<reqBody, storeRest, streamVars>>

\* init::capture_req_body: the compile failure returns Ok(false) before
\* ctx.cached_req_body()? is reached
CaptureReqBody(res) ==
    LET g  == GetRegex(lru, cap, res)
        at == IF g.val.ok /\ reqBody.cached
              THEN FindFrom(g.val.re, reqBody.data, 1) ELSE 0
    IN  /\ lru' = g.lru
        /\ vp' = IF at = 0 THEN vp
                 ELSE [active |-> TRUE, text |-> reqBody.data, re |-> g.val.re,
                       at |-> at, owned |-> TRUE]
        /\ last' = [NoCall EXCEPT !.op = "capture_req_body", !.res = res,
                       !.hit = g.hit,
                       !.err = (g.val.ok /\ ~reqBody.cached),
                       !.bool = (at # 0)]
        /\ UNCHANGED <<reqBody, storeRest, streamVars>>

\* caps.get(i): group 0 is the whole match, group i of the model's one
\* pattern with groups is its i-th byte; absent beyond the pattern's groups
CapsGet(c, i) ==
    IF i > NGroups(c.re) THEN [some |-> FALSE, bytes |-> <<>>]
    ELSE IF i = 0
    THEN [some |-> TRUE, bytes |-> SubSeq(c.text, c.at, c.at + Len(Lit(c.re)) - 1)]
    ELSE [some |-> TRUE, bytes |-> SubSeq(c.text, c.at + i - 1, c.at + i - 1)]

\* init::group
Group(n) ==
    LET r == IF vp.active THEN CapsGet(vp, ClampI64ToUsize(n))
             ELSE [some |-> FALSE, bytes |-> <<>>]
    IN  /\ last' = [NoCall EXCEPT !.op = "group", !.n = n, !.some = r.some,
                       !.bytes = r.bytes]
        /\ UNCHANGED <<lru, vp, reqBody, storeRest, streamVars>>

\* init::named_group
NamedGroup(name) ==
    LET r == IF vp.active /\ NameIndex(vp.re, name) # 0
             THEN CapsGet(vp, NameIndex(vp.re, name))
             ELSE [some |-> FALSE, bytes |-> <<>>]
    IN  /\ last' = [NoCall EXCEPT !.op = "named_group", !.name = name,
                       !.some = r.some, !.bytes = r.bytes]
        /\ UNCHANGED <<lru, vp, reqBody, storeRest, streamVars>>

NextMatch ==
    \/ \E s \in Texts, res \in PatternTexts : IsMatch(s, res)
    \/ \E s \in Texts, res \in PatternTexts, sub \in Subs, limit \in Limits :
          Replace(s, res, sub, limit)

SpecMatch == InitMatch /\ [][NextMatch]_vars

NextCapture ==
    \/ \E s \in Texts, res \in PatternTexts : Capture(s, res)
    \/ \E res \in PatternTexts : CaptureReqBody(res)
    \/ \E n \in Indexes : Group(n)
    \/ \E name \in Names : NamedGroup(name)

SpecCapture == InitCapture /\ [][NextCapture]_vars

-----------------------------------------------------------------------------
(* Claims about the control-phase calls *)

\* C4: for every pattern that fails to compile, is_match returns false and
\* replace returns its input text unchanged as a normal result (no error),
\* for every text and limit, the failure fresh or served from the cache.
Claim_C4_SilentFailure ==
    /\ (last.op = "is_match" /\ last.res \in Malformed) =>
          ~last.bool /\ ~last.err
    /\ (last.op = "replace" /\ last.res \in Malformed) =>
          ~last.err /\ last.bytes = last.text

\* C5: whenever capture returns false (compile error or no match) the capture
\* slot is empty afterwards, even if an earlier capture of the task succeeded.
Claim_C5_CaptureClears ==
    (last.op = "capture" /\ ~last.bool) => ~vp.active

\* C6: group(index) returns a sub-match only when a capture is active and
\* index is in 0..k (k the number of groups of the pattern), and is absent
\* for every other index, negative ones included.
Claim_C6_GroupRange ==
    last.op = "group" =>
        IF vp.active /\ last.n \in 0..NGroups(vp.re)
        THEN last.some /\ last.bytes = CapsGet(vp, last.n).bytes
        ELSE ~last.some

PatternMatchesBody(res) ==
    /\ res \notin Malformed
    /\ reqBody.cached
    /\ FindFrom(res, reqBody.data, 1) # 0

-----------------------------------------------------------------------------
(* Body rewriting: replace_resp_body registers steps in the task's private *)
(* slot, Vxp::new moves the slot's Vxp into a processor, the delivery side *)
(* is pushed the body and the fetch side pulls it.  A task handles one     *)
(* body at a time: a processor is created once the previous one is done.   *)

Bodies == SeqsUpTo(MaxBody)
StreamCacheSizes == {1}
StreamPatterns == {"a", "(?P<x>a)(b)", "("}
StreamLimits == {0, 1}
StreamSubs == {<<"b">>}
Actions == {"Null", "Flush", "End"}

InitStream ==
    /\ \E cs \in StreamCacheSizes : New(cs)
    /\ CacheIdle
    /\ OpsIdle
    /\ task \in {"client", "backend"}
    /\ bereqBodyNull \in (IF task = "backend" THEN BOOLEAN ELSE {FALSE})
    /\ vclFailed = FALSE
    /\ cl = AllFramed
    /\ nreg = 0
    /\ made = {}
    /\ priv = NoVxp
    /\ proc = NoProc
    /\ inAll = <<>>
    /\ nchunks = 0
    /\ inRem = <<>>
    /\ upClosed = "open"
    /\ down = <<>>
    /\ pulled = <<>>

streamRest == <<task, bereqBodyNull, cl, made, proc, inAll, nchunks, inRem, upClosed, down, pulled>>

ReplaceBodyPrepend(res, sub, limit, dir, ws_ok) ==
    LET g     == GetRegex(lru, cap, res)
        value == [dir |-> dir, re |-> g.val.re, sub |-> sub,
                  limit |-> ClampI64ToUsize(limit), raw |-> limit]
    IN  /\ lru' = g.lru
        /\ IF ~g.val.ok THEN UNCHANGED <<priv, vclFailed, nreg>>
           ELSE IF ~ws_ok THEN vclFailed' = TRUE /\ UNCHANGED <<priv, nreg>>
           ELSE /\ nreg' = nreg + 1
                /\ priv' = [some |-> TRUE,
                            steps |-> <<value>> \o (IF priv.some THEN priv.steps ELSE <<>>),
                            body |-> <<>>, sent |-> -1]
                /\ UNCHANGED vclFailed

\* the body of init::replace_body: what it does to the store, the slot and
\* the transaction; ws_ok: VRT_priv_task found room for the task's slot.
\* The field raw of a step is history: the limit as it was given.
ReplaceBodyCore(res, sub, limit, dir, ws_ok) ==
    LET g     == GetRegex(lru, cap, res)
        value == [dir |-> dir, re |-> g.val.re, sub |-> sub,
                  limit |-> ClampI64ToUsize(limit), raw |-> limit]
    IN  /\ lru' = g.lru
        /\ IF ~g.val.ok THEN UNCHANGED <<priv, vclFailed, nreg>>
           ELSE IF ~ws_ok THEN vclFailed' = TRUE /\ UNCHANGED <<priv, nreg>>
           ELSE /\ nreg' = nreg + 1
                /\ priv' = IF priv.some
                           THEN [priv EXCEPT !.steps = Append(@, value)]
                           ELSE [some |-> TRUE, steps |-> <<value>>,
                                 body |-> <<>>, sent |-> -1]
                /\ UNCHANGED vclFailed

\* init::replace_body
ReplaceBody(res, sub, limit, dir, ws_ok) ==
    /\ ReplaceBodyCore(res, sub, limit, dir, ws_ok)
    /\ UNCHANGED <<storeRest, opVars, streamRest>>

\* init::replace_resp_body: the direction follows from ctx.http_req
ReplaceRespBody(res, sub, limit, ws_ok) ==
    ReplaceBody(res, sub, limit,
                IF task = "client" THEN "Deliver" ELSE "Fetch", ws_ok)

\* Vxp::new: the slot's Vxp, whatever the directions of its steps, or Pass
VxpNew(kind) ==
    IF priv.some
    THEN [kind |-> kind, pass |-> FALSE, done |-> FALSE,
          steps |-> priv.steps, body |-> priv.body, sent |-> priv.sent]
    ELSE [kind |-> kind, pass |-> TRUE, done |-> FALSE,
          steps |-> <<>>, body |-> <<>>, sent |-> -1]

\* the host starts streaming body b through the new processor
StartBody(b) ==
    /\ inAll' = b
    /\ nchunks' = 0
    /\ inRem' = b
    /\ upClosed' = "open"
    /\ down' = <<>>
    /\ pulled' = <<>>

NewVdpKeepCl(b) ==
    /\ cl' = cl
    /\ proc' = VxpNew("vdp")
    /\ priv' = NoVxp
    /\ made' = made \cup {"vdp"}
    /\ StartBody(b)
    /\ UNCHANGED <<cacheVars, opVars, task, bereqBodyNull, vclFailed, nreg>>

\* DeliveryProcessor::new
NewVdp(b) ==
    /\ cl' = IF task = "backend"
             THEN IF bereqBodyNull
                  THEN [cl EXCEPT !.clen = "unknown", !.bereq = FALSE]
                  ELSE cl
             ELSE [cl EXCEPT !.resp = FALSE]
    /\ proc' = VxpNew("vdp")
    /\ priv' = NoVxp
    /\ made' = made \cup {"vdp"}
    /\ StartBody(b)
    /\ UNCHANGED <<cacheVars, opVars, task, bereqBodyNull, vclFailed, nreg>>

\* FetchProcessor::new
NewVfp(b) ==
    /\ cl' = IF task = "backend" THEN [cl EXCEPT !.beresp = FALSE] ELSE cl
    /\ proc' = VxpNew("vfp")
    /\ priv' = NoVxp
    /\ made' = made \cup {"vfp"}
    /\ StartBody(b)
    /\ UNCHANGED <<cacheVars, opVars, task, bereqBodyNull, vclFailed, nreg>>

StepAppliesAlways(step, dir) == TRUE

StepAppliesOther(step, dir) == step.dir # dir

\* matches!(dir, Direction::Deliver) / matches!(dir, Direction::Fetch)
StepApplies(step, dir) == step.dir = dir

StepsReversed(steps, i, dir, body) ==
    LET RECURSIVE Rev(_, _)
        Rev(j, bd) ==
            IF j < 1 THEN bd
            ELSE IF ~StepApplies(steps[j], dir) THEN Rev(j - 1, bd)
            ELSE Rev(j - 1, Replacen(steps[j].re, bd, steps[j].limit, steps[j].sub).bytes)
    IN  Rev(Len(steps), body)

\* the loop over self.steps from step i on: a Cow::Owned result replaces
\* replaced_body, a Cow::Borrowed one is ignored
RECURSIVE ApplySteps(_, _, _, _)
ApplySteps(steps, i, dir, body) ==
    IF i > Len(steps) THEN body
    ELSE IF ~StepApplies(steps[i], dir) THEN ApplySteps(steps, i + 1, dir, body)
    ELSE LET r == Replacen(steps[i].re, body, steps[i].limit, steps[i].sub)
         IN  ApplySteps(steps, i + 1, dir, IF r.owned THEN r.bytes ELSE body)

ExtendKeepLast(body, buf) == buf

\* self.body.extend_from_slice(buf)
Extend(body, buf) == body \o buf

PushForwardEach(act, k) ==
    LET buf  == SubSeq(inRem, 1, k)
        body == Extend(proc.body, buf)
    IN  /\ proc.kind = "vdp"
        /\ ~proc.done
        /\ k <= Len(inRem)
        /\ act = "End" => k = Len(inRem)
        /\ act # "End" => k >= 1
        /\ inRem' = SubSeq(inRem, k + 1, Len(inRem))
        /\ nchunks' = nchunks + 1
        /\ proc' = [proc EXCEPT !.body = IF proc.pass THEN @ ELSE body,
                                !.done = (act = "End")]
        /\ down' = Append(down,
              [act |-> act, bytes |-> ApplySteps(proc.steps, 1, "Deliver", buf)])
        /\ UNCHANGED <<cacheVars, opVars, task, bereqBodyNull, vclFailed, cl, nreg, made, priv,
                       inAll, upClosed, pulled>>

\* DeliveryProcessor::push with the first k bytes the host has left (at
\* least one, except with End); a
\* processor that answered Pass is not in the chain and the host's push goes
\* to the downstream as it is
Push(act, k) ==
    LET buf  == SubSeq(inRem, 1, k)
        body == Extend(proc.body, buf)
    IN  /\ proc.kind = "vdp"
        /\ ~proc.done
        /\ k <= Len(inRem)
        /\ act = "End" => k = Len(inRem)
        /\ act # "End" => k >= 1
        /\ inRem' = SubSeq(inRem, k + 1, Len(inRem))
        /\ nchunks' = nchunks + 1
        /\ IF proc.pass
           THEN /\ down' = Append(down, [act |-> act, bytes |-> buf])
                /\ proc' = [proc EXCEPT !.done = (act = "End")]
           ELSE IF act # "End"
           THEN /\ proc' = [proc EXCEPT !.body = body]
                /\ UNCHANGED down
           ELSE /\ proc' = [proc EXCEPT !.body = body, !.done = TRUE]
                /\ down' = Append(down,
                      [act |-> act, bytes |-> ApplySteps(proc.steps, 1, "Deliver", body)])
        /\ UNCHANGED <<cacheVars, opVars, task, bereqBodyNull, vclFailed, cl, nreg, made, priv,
                       inAll, upClosed, pulled>>

\* the ways to cut s into non-empty chunks of at most b bytes
RECURSIVE Splits(_, _)
Splits(s, b) ==
    IF s = <<>> THEN {<<>>}
    ELSE UNION {{<<SubSeq(s, 1, n)>> \o r : r \in Splits(SubSeq(s, n + 1, Len(s)), b)} :
                n \in 1..Min(b, Len(s))}

\* the self.body.extend_from_slice(&buf[..sz]) of the pull loop, chunk by chunk
RECURSIVE ExtendAll(_, _)
ExtendAll(body, chunks) ==
    IF chunks = <<>> THEN body
    ELSE ExtendAll(Extend(body, Head(chunks)), Tail(chunks))

DrainShort(p, b) ==
    LET len == Min(b, Len(p.body) - p.sent) - 1
        out == IF len < 0 THEN p.sent ELSE p.sent + len
    IN  [proc  |-> [p EXCEPT !.sent = out, !.done = (out = Len(p.body))],
         ret   |-> [kind  |-> IF out = Len(p.body) THEN "End" ELSE "Ok",
                    buf   |-> b,
                    up    |-> FALSE,
                    bytes |-> SubSeq(p.body, p.sent + 1, out)]]

DrainOvershoot(p, b) ==
    LET len == Min(b, Len(p.body) - p.sent)
        out == p.sent + b
    IN  [proc  |-> [p EXCEPT !.sent = out, !.done = (out >= Len(p.body))],
         ret   |-> [kind  |-> IF out >= Len(p.body) THEN "End" ELSE "Ok",
                    buf   |-> b,
                    up    |-> FALSE,
                    bytes |-> SubSeq(p.body, p.sent + 1, p.sent + len)]]

DrainAll(p, b) ==
    [proc  |-> [p EXCEPT !.sent = Len(p.body), !.done = TRUE],
     ret   |-> [kind |-> "End", buf |-> b, up |-> FALSE,
                bytes |-> SubSeq(p.body, p.sent + 1, Len(p.body))]]

\* the copy out of self.body from the cursor, at most b bytes; the fields buf
\* and up of an answer are history: the size of the caller's buffer, and
\* whether the call pulled the upstream (ctx.pull)
Drain(p, b) ==
    LET len == Min(b, Len(p.body) - p.sent)
        out == p.sent + len
    IN  [proc  |-> [p EXCEPT !.sent = out, !.done = (out = Len(p.body))],
         ret   |-> [kind  |-> IF out = Len(p.body) THEN "End" ELSE "Ok",
                    buf   |-> b,
                    up    |-> FALSE,
                    bytes |-> SubSeq(p.body, p.sent + 1, out)]]

PullLoopFlushOnErr(b, n, chunks, fails) ==
    LET body == ExtendAll(proc.body, chunks)
        p    == [proc EXCEPT !.body = ApplySteps(proc.steps, 1, "Fetch", body),
                             !.sent = 0]
    IN  /\ n <= Len(inRem)
        /\ chunks \in Splits(SubSeq(inRem, 1, n), b)
        /\ ~fails => n = Len(inRem)
        /\ inRem' = SubSeq(inRem, n + 1, Len(inRem))
        /\ nchunks' = nchunks + Len(chunks)
        /\ proc' = Drain(p, b).proc
        /\ upClosed' = IF fails THEN "Err" ELSE "End"
        /\ pulled' = Append(pulled, [Drain(p, b).ret EXCEPT
                                        !.up = TRUE,
                                        !.kind = IF fails THEN "Err" ELSE @])

\* the loop of FetchProcessor::pull entered with self.sent None and a buffer
\* of b bytes: the upstream hands over the chunks of `chunks` (n bytes in
\* all), each with Ok, and then fails with Err, or it hands over all it has
\* and the last answer is End (with the last chunk, or with no bytes after
\* it).  After an Err the host closes the processor (done).
PullLoop(b, n, chunks, fails) ==
    LET body == ExtendAll(proc.body, chunks)
    IN  /\ n <= Len(inRem)
        /\ chunks \in Splits(SubSeq(inRem, 1, n), b)
        /\ ~fails => n = Len(inRem)
        /\ inRem' = SubSeq(inRem, n + 1, Len(inRem))
        /\ nchunks' = nchunks + Len(chunks)
        /\ IF fails
           THEN /\ proc' = [proc EXCEPT !.body = body, !.done = TRUE]
                /\ upClosed' = "Err"
                /\ pulled' = Append(pulled, [kind |-> "Err", buf |-> b, up |-> TRUE,
                                             bytes |-> <<>>])
           ELSE LET p == [proc EXCEPT !.body = ApplySteps(proc.steps, 1, "Fetch", body),
                                      !.sent = 0]
                IN  /\ proc' = Drain(p, b).proc
                    /\ upClosed' = "End"
                    /\ pulled' = Append(pulled, [Drain(p, b).ret EXCEPT !.up = TRUE])

\* FetchProcessor::pull with a buffer of b bytes while self.sent is None
PullBuffering(b, n, chunks, fails) ==
    /\ proc.kind = "vfp"
    /\ ~proc.pass
    /\ ~proc.done
    /\ proc.sent = -1
    /\ upClosed = "open"
    /\ PullLoop(b, n, chunks, fails)
    /\ UNCHANGED <<cacheVars, opVars, task, bereqBodyNull, vclFailed, cl, nreg, made, priv,
                   inAll, down>>

PullDrainingAgain(b) ==
    LET p == [proc EXCEPT !.body = ApplySteps(proc.steps, 1, "Fetch", proc.body)]
    IN  /\ proc.kind = "vfp"
        /\ ~proc.pass
        /\ ~proc.done
        /\ proc.sent # -1
        /\ proc' = Drain(p, b).proc
        /\ pulled' = Append(pulled, Drain(p, b).ret)
        /\ UNCHANGED <<cacheVars, opVars, task, bereqBodyNull, vclFailed, cl, nreg, made, priv,
                       inAll, nchunks, inRem, upClosed, down>>

\* FetchProcessor::pull with a buffer of b bytes once self.sent is Some
PullDraining(b) ==
    /\ proc.kind = "vfp"
    /\ ~proc.pass
    /\ ~proc.done
    /\ proc.sent # -1
    /\ proc' = Drain(proc, b).proc
    /\ pulled' = Append(pulled, Drain(proc, b).ret)
    /\ UNCHANGED <<cacheVars, opVars, task, bereqBodyNull, vclFailed, cl, nreg, made, priv,
                   inAll, nchunks, inRem, upClosed, down>>

\* a processor that answered Pass is not in the chain: the host's pull gets
\* the upstream's answer, k bytes with Ok or End, or Err
PullPassed(b, k, kind) ==
    /\ proc.kind = "vfp"
    /\ proc.pass
    /\ ~proc.done
    /\ k <= Min(b, Len(inRem))
    /\ kind = "End" => k = Len(inRem)
    /\ kind = "Ok" => k >= 1
    /\ kind = "Err" => k = 0
    /\ inRem' = SubSeq(inRem, k + 1, Len(inRem))
    /\ nchunks' = nchunks + 1
    /\ upClosed' = IF kind = "Ok" THEN "open" ELSE kind
    /\ proc' = [proc EXCEPT !.done = (kind # "Ok")]
    /\ pulled' = Append(pulled, [kind |-> kind, buf |-> b, up |-> TRUE,
                                 bytes |-> SubSeq(inRem, 1, k)])
    /\ UNCHANGED <<cacheVars, opVars, task, bereqBodyNull, vclFailed, cl, nreg, made, priv,
                   inAll, down>>

NoLiveProcessor == proc.kind = "none" \/ proc.done

NextStream ==
    \/ /\ ~vclFailed
       /\ nreg < MaxSteps
       /\ \E res \in StreamPatterns, sub \in StreamSubs, limit \in StreamLimits, ws_ok \in BOOLEAN :
             ReplaceRespBody(res, sub, limit, ws_ok)
    \/ /\ ~vclFailed
       /\ NoLiveProcessor
       /\ "vdp" \notin made
       /\ \E b \in Bodies : NewVdp(b)
    \/ /\ ~vclFailed
       /\ NoLiveProcessor
       /\ "vfp" \notin made
       /\ \E b \in Bodies : NewVfp(b)
    \/ \E act \in Actions, k \in 0..MaxBody : Push(act, k)
    \/ \E b \in 1..MaxBuf, n \in 0..MaxBody, fails \in BOOLEAN :
          \E chunks \in Splits(SubSeq(inRem, 1, Min(n, Len(inRem))), b) :
             PullBuffering(b, n, chunks, fails)
    \/ \E b \in 1..MaxBuf : PullDraining(b)
    \/ \E b \in 1..MaxBuf, k \in 0..MaxBody, kind \in {"Ok", "End", "Err"} :
          PullPassed(b, k, kind)

SpecStream == InitStream /\ [][NextStream]_vars

-----------------------------------------------------------------------------
(* Claims about the body processors *)

ProcDir == IF proc.kind = "vdp" THEN "Deliver" ELSE "Fetch"

\* the steps of the live processor that carry its own direction
OwnSteps == SelectSeq(proc.steps, LAMBDA st : st.dir = ProcDir)

RECURSIVE Concat(_)
Concat(rs) == IF rs = <<>> THEN <<>> ELSE Head(rs).bytes \o Concat(Tail(rs))

\* all the bytes the processor has emitted: to its downstream (push mode),
\* to its caller (pull mode)
OutBytes == IF proc.kind = "vdp" THEN Concat(down) ELSE Concat(pulled)

\* the body is over and no error ended it
BodyComplete ==
    /\ proc.kind # "none"
    /\ proc.done
    /\ proc.kind = "vfp" => upClosed = "End"

IsPrefix(p, s) == Len(p) <= Len(s) /\ SubSeq(s, 1, Len(p)) = p

\* C9: a processor with no step of its own direction (no step registered at
\* all, or only steps of the other direction) emits its input byte for byte,
\* in push and in pull mode, for every body and every chunking: what it has
\* emitted is always a prefix of the body, and the whole body at the end.
Thm_C9_NoStepsIdentity ==
    (proc.kind # "none" /\ OwnSteps = <<>>) =>
        /\ IsPrefix(OutBytes, inAll)
        /\ BodyComplete => OutBytes = inAll

Wit_C9_OtherDirectionOnly ==
    /\ proc.kind = "vdp"
    /\ ~proc.pass
    /\ Len(proc.steps) = 1
    /\ proc.steps[1].dir = "Fetch"
    /\ proc.steps[1].re = "a"
    /\ inAll = <<"a", "b", "a">>
    /\ nchunks = 3
    /\ BodyComplete
    /\ OutBytes = inAll

\* the steps one after another on the whole body, each output the next input
RECURSIVE InOrder(_, _)
InOrder(steps, body) ==
    IF steps = <<>> THEN body
    ELSE InOrder(Tail(steps),
                 Replacen(Head(steps).re, body, Head(steps).limit, Head(steps).sub).bytes)

\* C10: for every body, chunking and step list, the bytes a processor emits
\* over a whole body are the processor's steps of its direction applied in
\* registration order to the concatenation of the inbound chunks; a match
\* that straddles a chunk boundary is rewritten as in a single chunk.
Thm_C10_StepsOnWholeBody ==
    /\ BodyComplete => OutBytes = InOrder(OwnSteps, inAll)
    /\ (proc.kind = "vdp" /\ ~proc.done /\ ~proc.pass) => OutBytes = <<>>
    /\ (proc.kind = "vfp" /\ proc.sent = -1 /\ ~proc.pass) => OutBytes = <<>>

Wit_C10_StraddlingMatch ==
    /\ proc.kind = "vfp"
    /\ BodyComplete
    /\ Len(OwnSteps) = 2
    /\ OwnSteps[1].re = "a"
    /\ OwnSteps[2].re = "(?P<x>a)(b)"
    /\ inAll = <<"a", "a", "b">>
    /\ nchunks = 3
    /\ OutBytes = <<"b", "b", "b">>
    /\ Len(pulled) = 2

-----------------------------------------------------------------------------
(* The substitution limit, in replace and in a registered step.  replace   *)
(* and the body processors share nothing but the store, so a task here     *)
(* either calls replace or registers steps and streams bodies.             *)

LimitPatterns == {"a", "("}

InitLimit == InitStream

NextLimit ==
    \/ /\ nreg = 0
       /\ made = {}
       /\ \E s \in Bodies, res \in LimitPatterns, sub \in Subs, limit \in Limits :
             Replace(s, res, sub, limit)
    \/ /\ last.op = "none"
       /\ nreg < MaxLimitSteps
       /\ \E res \in LimitPatterns, sub \in StreamSubs, limit \in Limits :
             ReplaceRespBody(res, sub, limit, TRUE)
    \/ /\ last.op = "none"
       /\ NoLiveProcessor
       /\ "vdp" \notin made
       /\ \E b \in Bodies : NewVdp(b)
    \/ /\ last.op = "none"
       /\ NoLiveProcessor
       /\ "vfp" \notin made
       /\ \E b \in Bodies : NewVfp(b)
    \/ \E act \in Actions, k \in 0..MaxBody : Push(act, k)
    \/ \E b \in 1..MaxBuf, n \in 0..MaxBody, fails \in BOOLEAN :
          \E chunks \in Splits(SubSeq(inRem, 1, Min(n, Len(inRem))), b) :
             PullBuffering(b, n, chunks, fails)
    \/ \E b \in 1..MaxBuf : PullDraining(b)
    \/ \E b \in 1..MaxBuf, k \in 0..MaxBody, kind \in {"Ok", "End", "Err"} :
          PullPassed(b, k, kind)

SpecLimit == InitLimit /\ [][NextLimit]_vars

\* the starts of the successive non-overlapping matches of re in h, from pos
RECURSIVE MatchStarts(_, _, _)
MatchStarts(re, h, pos) ==
    LET m == FindFrom(re, h, pos)
    IN  IF m = 0 THEN <<>> ELSE <<m>> \o MatchStarts(re, h, m + Len(Lit(re)))

\* how many of n matches a limit asks to replace
EffectiveCount(limit, n) == IF limit <= 0 THEN n ELSE Min(limit, n)

\* h with its first k matches (starting at ms[1..k]) replaced by sub
RECURSIVE FirstReplaced(_, _, _, _, _, _)
FirstReplaced(re, h, sub, ms, k, i) ==
    LET from == IF i = 1 THEN 1 ELSE ms[i - 1] + Len(Lit(re))
    IN  IF i > k THEN SubSeq(h, from, Len(h))
        ELSE SubSeq(h, from, ms[i] - 1) \o sub \o FirstReplaced(re, h, sub, ms, k, i + 1)

LimitMeaning(re, h, sub, limit) ==
    LET ms == MatchStarts(re, h, 1)
    IN  FirstReplaced(re, h, sub, ms, EffectiveCount(limit, Len(ms)), 1)

RECURSIVE StepsByMeaning(_, _)
StepsByMeaning(steps, body) ==
    IF steps = <<>> THEN body
    ELSE StepsByMeaning(Tail(steps),
            LimitMeaning(Head(steps).re, body, Head(steps).sub, Head(steps).raw))

\* C8: for a pattern that compiles the limit means the same in replace and in
\* a registered step: 0 replaces every match, k > 0 the first min(k, matches)
\* matches from the left and no later one, a negative limit is as 0.
Thm_C8_LimitMeaning ==
    /\ (last.op = "replace" /\ last.res \notin Malformed) =>
          /\ ~last.err
          /\ last.bytes = LimitMeaning(last.res, last.text, last.sub, last.n)
    /\ BodyComplete => OutBytes = StepsByMeaning(OwnSteps, inAll)

Wit_C8_LimitTwoOfThree ==
    /\ BodyComplete
    /\ Len(OwnSteps) = 1
    /\ OwnSteps[1].raw = 2
    /\ inAll = <<"a", "a", "a">>
    /\ OutBytes = <<"b", "b", "a">>

-----------------------------------------------------------------------------
(* Claims about directions, the slot and the processors' protocol *)

\* what a processor holding only the steps of its own direction emits
OwnOnly == ApplySteps(OwnSteps, 1, ProcDir, inAll)

\* C11: direction is a hard partition.  What an installed processor emits is
\* at every moment a prefix of, and over a whole body equal to, the output of
\* its own direction's steps alone, whatever steps of the other direction it
\* holds; and a registration made while a processor is active changes
\* neither the processor's steps nor what it has emitted.
Thm_C11_DirectionPartition ==
    /\ []((proc.kind # "none" /\ ~proc.pass) =>
            /\ IsPrefix(OutBytes, OwnOnly)
            /\ BodyComplete => OutBytes = OwnOnly)
    /\ [][(proc.kind # "none" /\ ~proc.done /\ nreg' # nreg) =>
            /\ proc' = proc
            /\ down' = down
            /\ pulled' = pulled]_vars

\* a fetch processor of a client task that holds a Deliver step for "a" is
\* draining a body with "a" in it while another step is registered
Wit_C11_OtherDirectionWhileActive ==
    /\ proc.kind = "vfp"
    /\ ~proc.pass
    /\ ~proc.done
    /\ Len(proc.steps) = 1
    /\ proc.steps[1].dir = "Deliver"
    /\ proc.steps[1].re = "a"
    /\ priv.some
    /\ inAll = <<"a", "b", "a">>
    /\ proc.sent = 2
    /\ OutBytes = <<"a", "b">>

\* the number of bytes returned by the first i pull calls
Returned(i) == Len(Concat(SubSeq(pulled, 1, i)))

\* C12: every pull of an installed fetch processor returns at most as many
\* bytes as the caller's buffer holds, and a call answers End exactly when it
\* brings the cursor to the end of the transformed buffer: never before, and
\* once over a whole body, on the last call.
Thm_C12_PullBounded ==
    (proc.kind = "vfp" /\ ~proc.pass) =>
        /\ \A i \in 1..Len(pulled) :
              /\ Len(pulled[i].bytes) <= pulled[i].buf
              /\ pulled[i].kind = "End" <=>
                    (proc.sent # -1 /\ Returned(i) = Len(proc.body))
              /\ pulled[i].kind = "End" => i = Len(pulled)
        /\ BodyComplete =>
              Cardinality({i \in 1..Len(pulled) : pulled[i].kind = "End"}) = 1

\* a transformed body of three bytes leaves in three calls with a buffer of
\* one byte: Ok, Ok, End
Wit_C12_ThreeCalls ==
    /\ proc.kind = "vfp"
    /\ ~proc.pass
    /\ BodyComplete
    /\ Len(proc.body) = 3
    /\ Len(pulled) = 3
    /\ \A i \in 1..3 : pulled[i].buf = 1
    /\ pulled[1].kind = "Ok"
    /\ pulled[2].kind = "Ok"
    /\ pulled[3].kind = "End"

\* the direction replace_resp_body gives the steps of this task
TaskDir == IF task = "client" THEN "Deliver" ELSE "Fetch"

\* C14: a processor claims only the pending steps of its own direction: it
\* holds no step of the other direction, and the processor of the direction
\* the task registers for is not passed over when every step the task
\* registered has left the slot (a task makes one processor of each kind).
Claim_C14_ClaimsOwnDirectionOnly ==
    proc.kind # "none" =>
        /\ \A i \in 1..Len(proc.steps) : proc.steps[i].dir = ProcDir
        /\ (ProcDir = TaskDir /\ nreg > 0 /\ ~priv.some) => ~proc.pass

\* the body the live processor handles still has the Content-Length header
\* it came with: the response's in a client delivery, the backend request's
\* in a backend delivery, the backend response's in a backend fetch, the
\* client request's in a client fetch
FramedBody ==
    IF proc.kind = "vdp"
    THEN IF task = "client" THEN cl.resp ELSE cl.bereq
    ELSE IF task = "backend" THEN cl.beresp ELSE cl.req

\* the contexts in which the constructor leaves the header of its body alone
KeepsFraming ==
    \/ proc.kind = "vdp" /\ task = "backend" /\ ~bereqBodyNull
    \/ proc.kind = "vfp" /\ task = "client"

\* C15 as stated: no installed processor handles a body whose Content-Length
\* is still in place, in any host context.
Orig_C15_FramingAlwaysInvalidated ==
    (proc.kind # "none" /\ ~proc.pass) => ~FramedBody

\* C15: a constructor removes the Content-Length of its body in a client
\* delivery, in a backend delivery whose bereq_body is null (where it also
\* sets the announced length to unknown) and in a backend fetch, before any
\* byte is handled.  In a backend delivery with a cached bereq_body and in a
\* client fetch it leaves the header, and there the processor holds no step
\* of its own direction and emits the body byte for byte.
Thm_C15_FramingByContext ==
    proc.kind # "none" =>
        IF KeepsFraming
        THEN /\ FramedBody
             /\ OwnSteps = <<>>
             /\ IsPrefix(OutBytes, inAll)
             /\ BodyComplete => OutBytes = inAll
        ELSE /\ ~FramedBody
             /\ (proc.kind = "vdp" /\ task = "backend") => cl.clen = "unknown"

\* a backend task with a cached bereq_body: its delivery processor left the
\* backend request framed, its fetch processor rewrote the response body
\* without the response's Content-Length
Wit_C15_BackendBothSides ==
    /\ task = "backend"
    /\ ~bereqBodyNull
    /\ made = {"vdp", "vfp"}
    /\ proc.kind = "vfp"
    /\ ~proc.pass
    /\ BodyComplete
    /\ cl.bereq
    /\ ~cl.beresp
    /\ inAll = <<"a">>
    /\ OutBytes = <<"b">>

\* C17: an installed delivery processor calls its downstream for no push
\* but the terminal one, and there once: with End, after every inbound
\* chunk has arrived, carrying the whole transformed body.
Thm_C17_OneTerminalEmission ==
    (proc.kind = "vdp" /\ ~proc.pass) =>
        /\ ~proc.done => down = <<>>
        /\ proc.done =>
              /\ Len(down) = 1
              /\ down[1].act = "End"
              /\ inRem = <<>>
              /\ proc.body = inAll
              /\ down[1].bytes = ApplySteps(proc.steps, 1, "Deliver", inAll)

\* three pushes, the last one terminal, one downstream call with "bbb"
Wit_C17_ThreePushesOneCall ==
    /\ proc.kind = "vdp"
    /\ ~proc.pass
    /\ proc.done
    /\ nchunks = 3
    /\ inAll = <<"a", "b", "a">>
    /\ down = <<[act |-> "End", bytes |-> <<"b", "b", "b">>]>>

\* the part of the body the processor has been handed
Consumed == SubSeq(inAll, 1, Len(inAll) - Len(inRem))

\* the steps of the processor applied once to the whole body
Once == ApplySteps(proc.steps, 1, ProcDir, inAll)

\* C18: the steps run once per body, when the end of the body is seen.
\* Until then the buffer holds the inbound bytes as they came; the fetch
\* side's buffer is from then on the result of one application and no later
\* call changes it; the delivery side hands one application to its
\* downstream and keeps its buffer as it came.
Thm_C18_TransformOnce ==
    /\ []((proc.kind = "vfp" /\ ~proc.pass) =>
            /\ proc.sent = -1 => (proc.body = Consumed /\ upClosed # "End")
            /\ proc.sent # -1 => (proc.body = Once /\ upClosed = "End"))
    /\ []((proc.kind = "vdp" /\ ~proc.pass) =>
            /\ proc.body = Consumed
            /\ down # <<>> => (proc.done /\ down = <<[act |-> "End", bytes |-> Once]>>))
    /\ [][(proc.kind = "vfp" /\ ~proc.pass /\ ~proc.done /\ proc.sent # -1) =>
            proc'.body = proc.body]_vars

\* a step that replaces the first "a" only: run twice it would replace both.
\* The body leaves in two pull calls with one "a" still in it.
Wit_C18_SecondCallAfterTransform ==
    /\ proc.kind = "vfp"
    /\ ~proc.pass
    /\ BodyComplete
    /\ Len(proc.steps) = 1
    /\ proc.steps[1].dir = "Fetch"
    /\ proc.steps[1].re = "a"
    /\ proc.steps[1].limit = 1
    /\ inAll = <<"a", "a">>
    /\ Len(pulled) = 2
    /\ OutBytes = <<"b", "a">>

\* C19: the cursor of the fetch side.  It is unset as long as the end of the
\* upstream has not been seen (and a delivery processor and the slot never
\* set it); once set it lies between 0 and the length of the transformed
\* buffer, so the assertion in pull holds, and it equals the number of bytes
\* returned so far; a call never moves it back, moves it by the number of
\* bytes the call returns, and leaves the transformed buffer as it is.
Thm_C19_CursorInvariant ==
    /\ [](/\ priv.sent = -1
          /\ proc.kind = "vdp" => proc.sent = -1
          /\ (proc.kind = "vfp" /\ ~proc.pass) =>
                /\ proc.sent = -1 <=> upClosed # "End"
                /\ proc.sent # -1 =>
                      /\ 0 <= proc.sent
                      /\ proc.sent <= Len(proc.body)
                      /\ proc.sent = Returned(Len(pulled))
                      /\ proc.done <=> proc.sent = Len(proc.body))
    /\ [][(proc.kind = "vfp" /\ ~proc.pass /\ ~proc.done /\ proc.sent # -1) =>
            /\ proc'.sent >= proc.sent
            /\ proc'.sent - proc.sent = Len(Concat(pulled')) - Len(Concat(pulled))
            /\ proc'.body = proc.body]_vars

\* two bytes of a transformed body of three have been returned in two calls
Wit_C19_CursorMidway ==
    /\ proc.kind = "vfp"
    /\ ~proc.pass
    /\ ~proc.done
    /\ OwnSteps # <<>>
    /\ Len(proc.body) = 3
    /\ proc.sent = 2
    /\ Len(pulled) = 2
    /\ Len(OutBytes) = 2

-----------------------------------------------------------------------------
(* Registration alone: a task calls replace_resp_body some number of times *)
(* with patterns that compile and patterns that do not.  hist records the   *)
(* pattern texts in the order of the calls, last the latest call.           *)

RegPatterns == {"a", "b", "("}
RegLimits == {-1, 2}

InitRegister == InitStream

\* init::replace_resp_body, with the call recorded
RegisterCall(res, sub, limit, ws_ok) ==
    /\ ReplaceBodyCore(res, sub, limit,
                       IF task = "client" THEN "Deliver" ELSE "Fetch", ws_ok)
    /\ hist' = Append(hist, res)
    /\ last' = [NoCall EXCEPT !.op = "replace_resp_body", !.res = res,
                              !.sub = sub, !.n = limit, !.bool = ws_ok]
    /\ UNCHANGED <<conf, cap, mutex, pc, arg, comp, ret, ncompile, nevict,
                   vp, reqBody, streamRest>>

NextRegister ==
    /\ ~vclFailed
    /\ Len(hist) < MaxCalls
    /\ \E res \in RegPatterns, sub \in Subs, limit \in RegLimits, ws_ok \in BOOLEAN :
          RegisterCall(res, sub, limit, ws_ok)

SpecRegister == InitRegister /\ [][NextRegister]_vars

\* the step registry of the task: the steps in its slot
Registry(p) == IF p.some THEN p.steps ELSE <<>>

\* the pattern texts of the calls that registered a step: every call whose
\* pattern compiles, but for a last call that aborted the transaction
Registered ==
    LET ok == SelectSeq(hist, LAMBDA r : r \notin Malformed)
    IN  IF vclFailed THEN SubSeq(ok, 1, Len(ok) - 1) ELSE ok

\* C13: a registration whose pattern does not compile leaves the registry
\* as it was.  After any sequence of registrations the registry holds one
\* step per call with a pattern that compiles, in the order of the calls; the
\* step of the latest such call carries that call's pattern, replacement and
\* limit (a negative limit as 0); and no call changes or removes a step that
\* is already there.
Thm_C13_InvalidRegistrationNoop ==
    /\ [](/\ Len(Registry(priv)) = Len(Registered)
          /\ \A i \in 1..Len(Registered) : Registry(priv)[i].re = Registered[i]
          /\ (last.op = "replace_resp_body" /\ last.res \notin Malformed /\ last.bool) =>
                LET st == Registry(priv)[Len(Registry(priv))]
                IN  /\ st.re = last.res
                    /\ st.sub = last.sub
                    /\ st.limit = (IF last.n < 0 THEN 0 ELSE last.n)
                    /\ st.dir = (IF task = "client" THEN "Deliver" ELSE "Fetch"))
    /\ [][/\ IsPrefix(Registry(priv), Registry(priv'))
          /\ last'.res \in Malformed => priv' = priv]_vars

\* valid, invalid, valid: the two valid steps are in the registry in order
Wit_C13_ValidInvalidValid ==
    /\ hist = <<"a", "(", "b">>
    /\ ~vclFailed
    /\ Len(Registry(priv)) = 2
    /\ Registry(priv)[1].re = "a"
    /\ Registry(priv)[1].sub = <<"b">>
    /\ Registry(priv)[1].limit = 0
    /\ Registry(priv)[2].re = "b"
    /\ Registry(priv)[2].sub = <<>>
    /\ Registry(priv)[2].limit = 2

-----------------------------------------------------------------------------
(* The fetch side with a caller that pulls again after an Err: nothing in   *)
(* FetchProcessor::pull refuses the call, and the upstream it pulls again   *)
(* fails again or goes on with the body.                                    *)

InitFetch == InitStream

\* FetchProcessor::pull called again after it returned Err: self.sent is
\* still None, so the loop is entered as on the first call
PullAfterErr(b, n, chunks, fails) ==
    /\ proc.kind = "vfp"
    /\ ~proc.pass
    /\ proc.sent = -1
    /\ upClosed = "Err"
    /\ Len(pulled) < MaxCalls
    /\ PullLoop(b, n, chunks, fails)
    /\ UNCHANGED <<cacheVars, opVars, task, bereqBodyNull, vclFailed, cl, nreg, made, priv,
                   inAll, down>>

NextFetch ==
    \/ /\ nreg < MaxSteps
       /\ made = {}
       /\ \E res \in StreamPatterns, sub \in StreamSubs, limit \in StreamLimits :
             ReplaceRespBody(res, sub, limit, TRUE)
    \/ /\ made = {}
       /\ \E b \in Bodies : NewVfp(b)
    \/ \E b \in 1..MaxBuf, n \in 0..MaxBody, fails \in BOOLEAN :
          \E chunks \in Splits(SubSeq(inRem, 1, Min(n, Len(inRem))), b) :
             PullBuffering(b, n, chunks, fails)
    \/ \E b \in 1..MaxBuf : PullDraining(b)
    \/ \E b \in 1..MaxBuf, n \in 0..MaxBody, fails \in BOOLEAN :
          \E chunks \in Splits(SubSeq(inRem, 1, Min(n, Len(inRem))), b) :
             PullAfterErr(b, n, chunks, fails)

SpecFetch == InitFetch /\ [][NextFetch]_vars

\* C16 as stated: a pull that gets Err from the upstream returns Err with no
\* bytes, no transformation is run, and every later pull of the same body
\* returns no bytes and no End and does not pull the upstream.
Orig_C16_HaltsInErrorState ==
    (proc.kind = "vfp" /\ ~proc.pass) =>
        \A i \in 1..Len(pulled) :
            pulled[i].kind = "Err" =>
                /\ pulled[i].bytes = <<>>
                /\ proc.sent = -1
                /\ \A j \in (i + 1)..Len(pulled) :
                      /\ pulled[j].bytes = <<>>
                      /\ pulled[j].kind # "End"
                      /\ ~pulled[j].up

\* C16: a pull that gets Err from the upstream returns Err with no bytes and
\* runs no transformation: the bytes buffered so far stay as they came and
\* the cursor stays unset.  The processor keeps no error state: every call
\* made while the cursor is unset, the first one or one after an Err, pulls
\* the upstream, and no call made once the cursor is set does.
Thm_C16_ErrPropagated ==
    (proc.kind = "vfp" /\ ~proc.pass) =>
        /\ \A i \in 1..Len(pulled) :
              /\ pulled[i].kind = "Err" => pulled[i].bytes = <<>>
              /\ pulled[i].up <=> (\A j \in 1..(i - 1) : pulled[j].kind = "Err")
        /\ (pulled # <<>> /\ pulled[Len(pulled)].kind = "Err") =>
              /\ proc.sent = -1
              /\ proc.body = Consumed
              /\ upClosed = "Err"

\* the upstream fails after one byte and fails again when it is pulled again
Wit_C16_ErrThenErr ==
    /\ proc.kind = "vfp"
    /\ ~proc.pass
    /\ Len(proc.steps) = 1
    /\ proc.steps[1].dir = "Fetch"
    /\ proc.steps[1].re = "a"
    /\ inAll = <<"a", "a">>
    /\ proc.body = <<"a">>
    /\ Len(pulled) = 2
    /\ pulled[1].kind = "Err"
    /\ pulled[2].kind = "Err"
    /\ pulled[2].up

-----------------------------------------------------------------------------
(* Progress of the fetch side: the host's fetch loop keeps calling pull     *)
(* until the processor answers End or Err.                                  *)

InitPull == InitStream

\* one call of FetchProcessor::pull by the host's fetch loop
PullCall ==
    \/ \E b \in 1..MaxBuf, n \in 0..MaxBody, fails \in BOOLEAN :
          \E chunks \in Splits(SubSeq(inRem, 1, Min(n, Len(inRem))), b) :
             PullBuffering(b, n, chunks, fails)
    \/ \E b \in 1..MaxBuf : PullDraining(b)

NextPull ==
    \/ /\ nreg < MaxSteps
       /\ made = {}
       /\ \E res \in StreamPatterns, sub \in StreamSubs, limit \in StreamLimits :
             ReplaceRespBody(res, sub, limit, TRUE)
    \/ /\ made = {}
       /\ \E b \in Bodies : NewVfp(b)
    \/ PullCall

\* what a pull call can answer
PullAnswers == [kind : {"Ok", "End", "Err"}, buf : 1..MaxBuf, up : BOOLEAN, bytes : Bodies]

\* a pull call on the installed processor returns.  The steps of PullCall
\* are the only ones that append an answer to pulled, and one of them is
\* possible whenever this is: the fairness below is that of PullCall, the
\* host's fetch loop calling pull until the processor answers End or Err.
PullReturns ==
    /\ proc.kind = "vfp"
    /\ ~proc.pass
    /\ ~proc.done
    /\ \E r \in PullAnswers : pulled' = Append(pulled, r)

SpecPull == InitPull /\ [][NextPull]_vars /\ WF_pulled(PullReturns)

\* C20: a fetch processor whose caller keeps pulling with a buffer of at
\* least one byte comes to the end of its body; when the upstream ended
\* without error the last call answers End and the bytes returned are the
\* transformed buffer, every call before it answers Ok with as many bytes
\* as its buffer holds (at least one, fewer than what was left), and no
\* byte is returned before the end of the upstream has been seen.
Thm_C20_PullProgress ==
    /\ []((proc.kind = "vfp" /\ ~proc.pass) =>
            /\ Len(Concat(pulled)) > 0 => upClosed = "End"
            /\ \A i \in 1..Len(pulled) :
                  pulled[i].kind = "Ok" =>
                      /\ pulled[i].buf >= 1
                      /\ Len(pulled[i].bytes) = pulled[i].buf
                      /\ Len(pulled[i].bytes) < Len(proc.body) - Returned(i - 1)
            /\ BodyComplete =>
                  /\ pulled[Len(pulled)].kind = "End"
                  /\ Len(pulled[Len(pulled)].bytes) = Len(proc.body) - Returned(Len(pulled) - 1)
                  /\ Concat(pulled) = proc.body)
    /\ ((proc.kind = "vfp" /\ ~proc.pass /\ ~proc.done) ~> proc.done)

\* a transformed body of three bytes pulled with a buffer of two bytes: Ok
\* with two bytes, End with one
Wit_C20_TwoThenOne ==
    /\ proc.kind = "vfp"
    /\ ~proc.pass
    /\ BodyComplete
    /\ OwnSteps # <<>>
    /\ Len(proc.body) = 3
    /\ Len(pulled) = 2
    /\ pulled[1].buf = 2
    /\ Len(pulled[1].bytes) = 2
    /\ pulled[2].buf = 2
    /\ Len(pulled[2].bytes) = 1

=============================================================================
